---- MODULE Spec2Model ----
(***************************************************************************)
(* A model of scripts/process_schemas.py: the conversion of a directory of *)
(* Avro type definitions (avsc files) into generated class definitions plus *)
(* the postMethods endpoint table.                                         *)
(*                                                                         *)
(* Strings that the program inspects are modelled as sequences of words:   *)
(* a type name is a sequence of tokens such as <<"Search","Foo","Request">>*)
(* ("SearchFooRequest"), a version identifier is a sequence of characters. *)
(* No token is a prefix of another one, so the lexicographic order of the  *)
(* token sequences is the order Python gives to the concatenated strings.  *)
(***************************************************************************)
EXTENDS Integers, Sequences, FiniteSets, TLC

(***************************************************************************)
(* Bounds of the model.                                                    *)
(***************************************************************************)
MaxFields == 3
MaxTypes == 4
MaxVersionLen == 3
MaxAvdl == 2

(***************************************************************************)
(* String order.  Alphabet lists every word of the model in ASCII order    *)
(* ('/' < upper case < lower case); Rank is the position of a word in it.  *)
(***************************************************************************)
Alphabet ==
    << "/", "/search",
       "Bar", "Call", "Foo", "Mode", "Request", "Response", "Search",
       "bar", "call", "calls", "foo", "mode", "next_page_token",
       "page_token", "request", "response", "search", "variants" >>

Rank(w) == CHOOSE i \in 1..Len(Alphabet) : Alphabet[i] = w

\* Python's < on strings made of words: lexicographic, a proper prefix first.
RECURSIVE StrLess(_, _)
StrLess(a, b) ==
    IF b = <<>> THEN FALSE
    ELSE IF a = <<>> THEN TRUE
    ELSE IF Rank(Head(a)) # Rank(Head(b)) THEN Rank(Head(a)) < Rank(Head(b))
    ELSE StrLess(Tail(a), Tail(b))

\* str.lower() on a word of a type name.
LowerWord(w) ==
    CASE w = "Bar" -> "bar"
      [] w = "Call" -> "call"
      [] w = "Foo" -> "foo"
      [] w = "Mode" -> "mode"
      [] w = "Request" -> "request"
      [] w = "Response" -> "response"
      [] w = "Search" -> "search"
      [] OTHER -> w

lower(s) == [i \in 1..Len(s) |-> LowerWord(s[i])]

\* str.lower() on one character of a version identifier.
LowerChar(c) == IF c = "V" THEN "v" ELSE c

(***************************************************************************)
(* Avro schemas (avro.schema): a type descriptor is                        *)
(*   [tag, name, sub]  with tag in primitive | record | array | union,     *)
(* sub the item schema of an array (one element) or the branches of a      *)
(* union, in order.                                                        *)
(***************************************************************************)
PrimitiveSchema(n) == [tag |-> "primitive", name |-> <<n>>, sub |-> <<>>]
RecordRef(n) == [tag |-> "record", name |-> n, sub |-> <<>>]
ArraySchema(items) == [tag |-> "array", name |-> <<>>, sub |-> <<items>>]
UnionSchema(schemas) == [tag |-> "union", name |-> <<>>, sub |-> schemas]

Field(n, t, d) == [name |-> n, type |-> t, has_default |-> d]

\* A parsed type definition: a RecordSchema (fields in declaration order) or
\* an EnumSchema (symbols in declaration order).
RecordSchema(n, fs) == [kind |-> "record", name |-> n, fields |-> fs, symbols |-> <<>>]
EnumSchema(n, syms) == [kind |-> "enum", name |-> n, fields |-> <<>>, symbols |-> syms]

(***************************************************************************)
(* sorted(): insertion of each element after the elements not greater than *)
(* it, which is a stable sort as Python's is.                              *)
(***************************************************************************)
InsertField(t, x) ==
    LET p == Cardinality({i \in 1..Len(t) : ~(Rank(x.name) < Rank(t[i].name))})
    IN  SubSeq(t, 1, p) \o <<x>> \o SubSeq(t, p + 1, Len(t))

RECURSIVE SortFields(_)
SortFields(s) ==
    IF s = <<>> THEN <<>>
    ELSE InsertField(SortFields(SubSeq(s, 1, Len(s) - 1)), s[Len(s)])

InsertName(t, x) ==
    LET p == Cardinality({i \in 1..Len(t) : ~StrLess(x, t[i])})
    IN  SubSeq(t, 1, p) \o <<x>> \o SubSeq(t, p + 1, Len(t))

RECURSIVE sorted(_)
sorted(s) ==
    IF s = <<>> THEN <<>>
    ELSE InsertName(sorted(SubSeq(s, 1, Len(s) - 1)), s[Len(s)])

(***************************************************************************)
(* SchemaClass                                                             *)
(***************************************************************************)
\* A result of a method that may raise: err is "none" or the exception.
Ok(v) == [err |-> "none", val |-> v]
Raise(e) == [err |-> e, val |-> <<>>]

getFields(schema) == SortFields(schema.fields)

\* re.search('Search.+<suffix>', name): a "Search" and, at least one
\* character after its end, the suffix.
Matches(name, suffix) ==
    \E i, k \in 1..Len(name) :
        /\ name[i] = "Search"
        /\ name[k] = suffix
        /\ k >= i + 2

isSearchRequest(schema) == Matches(schema.name, "Request")

isSearchResponse(schema) == Matches(schema.name, "Response")

\* re.search('Search(.+)Request', name).groups()[0]: leftmost match, greedy
\* group, so from the first matching "Search" to the last "Request".
ObjectName(name) ==
    LET starts == {i \in 1..Len(name) :
                      /\ name[i] = "Search"
                      /\ \E k \in 1..Len(name) : name[k] = "Request" /\ k >= i + 2}
        i == CHOOSE x \in starts : \A y \in starts : x <= y
        ends == {k \in 1..Len(name) : name[k] = "Request" /\ k >= i + 2}
        k == CHOOSE x \in ends : \A y \in ends : x >= y
    IN  SubSeq(name, i + 1, k - 1)

Names(fields) == [i \in 1..Len(fields) |-> fields[i].name]

\* list.remove(x): drops the first occurrence.
Remove(names, x) ==
    LET p == CHOOSE i \in 1..Len(names) :
                 names[i] = x /\ \A j \in 1..(i - 1) : names[j] # x
    IN  SubSeq(names, 1, p - 1) \o SubSeq(names, p + 1, Len(names))

\* getValueListName without its second assertion.
getValueListNameUnchecked(schema) ==
    IF ~isSearchResponse(schema) THEN Raise("AssertionError")
    ELSE IF schema.kind # "record" THEN Raise("AttributeError")
    ELSE LET names == Names(getFields(schema)) IN
         IF ~(\E i \in 1..Len(names) : names[i] = "next_page_token")
         THEN Raise("ValueError")
         ELSE IF Len(Remove(names, "next_page_token")) = 0
         THEN Raise("IndexError")
         ELSE Ok(<<Remove(names, "next_page_token")[1]>>)

getValueListName(schema) ==
    IF ~isSearchResponse(schema) THEN Raise("AssertionError")
    ELSE IF schema.kind # "record" THEN Raise("AttributeError")
    ELSE LET names == Names(getFields(schema)) IN
         IF ~(\E i \in 1..Len(names) : names[i] = "next_page_token")
         THEN Raise("ValueError")
         ELSE IF Len(Remove(names, "next_page_token")) # 1
         THEN Raise("AssertionError")
         ELSE Ok(<<Remove(names, "next_page_token")[1]>>)

\* The contribution of one field to getEmbeddedTypes: edges, or an exception.
EmbeddedOfField(field) ==
    LET t == field.type IN
    IF t.tag = "array"
    THEN IF t.sub[1].tag = "record"
         THEN Ok(<< <<field.name>> \o t.sub[1].name >>)
         ELSE Ok(<<>>)
    ELSE IF t.tag = "record"
    THEN Ok(<< <<field.name>> \o t.name >>)
    ELSE IF t.tag = "union"
    THEN IF Len(t.sub) < 2 THEN Raise("IndexError")
         ELSE IF t.sub[1].tag = "primitive" /\ t.sub[1].name = <<"null">>
         THEN IF t.sub[2].tag = "record"
              THEN Ok(<< <<field.name>> \o t.sub[2].name >>)
              ELSE Ok(<<>>)
         ELSE Raise("Schema union assumptions violated")
    ELSE Ok(<<>>)

\* The loop over the sorted fields: the first exception ends it.
RECURSIVE EmbeddedOfFields(_)
EmbeddedOfFields(fields) ==
    IF fields = <<>> THEN Ok(<<>>)
    ELSE LET first == EmbeddedOfField(Head(fields)) IN
         IF first.err # "none" THEN first
         ELSE LET rest == EmbeddedOfFields(Tail(fields)) IN
              IF rest.err # "none" THEN rest
              ELSE Ok(first.val \o rest.val)

getEmbeddedTypes(schema) ==
    IF schema.kind = "record"
    THEN EmbeddedOfFields(getFields(schema))
    ELSE Ok(<<>>)

\* writeRequiredFields with the test of has_default inverted.
RequiredFieldNamesInverted(schema) ==
    LET fields == getFields(schema)
        keep == {i \in 1..Len(fields) : fields[i].has_default}
        RECURSIVE Pick(_)
        Pick(i) == IF i > Len(fields) THEN <<>>
                   ELSE IF i \in keep THEN <<fields[i].name>> \o Pick(i + 1)
                   ELSE Pick(i + 1)
    IN  Pick(1)

\* The names writeRequiredFields writes, in the order it writes them.
RequiredFieldNames(schema) ==
    LET fields == getFields(schema)
        keep == {i \in 1..Len(fields) : ~fields[i].has_default}
        RECURSIVE Pick(_)
        Pick(i) == IF i > Len(fields) THEN <<>>
                   ELSE IF i \in keep THEN <<fields[i].name>> \o Pick(i + 1)
                   ELSE Pick(i + 1)
    IN  Pick(1)

\* One thing written to the output file: what it is and its text.
W(kind, a, b) == [kind |-> kind, a |-> a, b |-> b]

\* The superclass SchemaClass.write chooses.
Superclass(schema) ==
    IF schema.kind = "enum" THEN "object"
    ELSE IF isSearchRequest(schema) THEN "SearchRequest"
    ELSE IF isSearchResponse(schema) THEN "SearchResponse"
    ELSE "ProtocolElement"

\* What one call of the nested writeEmbeddedTypes writes.
writeEmbeddedTypes(et) ==
    IF Len(et) = 0 THEN <<W("embeddedTypes = {}", <<>>, <<>>)>>
    ELSE <<W("embeddedTypes = {", <<>>, <<>>)>>
         \o [i \in 1..Len(et) |-> W("embeddedType", <<et[i][1]>>, Tail(et[i]))]
         \o <<W("}", <<>>, <<>>)>>

\* writeEmbeddedTypesClassMethods: [out, err], out what reached the file.
writeEmbeddedTypesClassMethods(schema) ==
    LET et == getEmbeddedTypes(schema)
        first == <<W("def isEmbeddedType", <<>>, <<>>)>>
    IN  IF et.err # "none" THEN [out |-> first, err |-> et.err]
        ELSE [out |-> first \o writeEmbeddedTypes(et.val)
                      \o <<W("def getEmbeddedType", <<>>, <<>>)>>
                      \o writeEmbeddedTypes(et.val),
              err |-> "none"]

writeConstructor(schema) ==
    << W("__slots__", Names(getFields(schema)), <<>>),
       W("__init__", Names(getFields(schema)), <<>>) >>

\* SchemaClass.write: [out, err]; the documentation and the schema source it
\* also prints carry no name the analyses read and are left out.
SchemaClassWrite(schema) ==
    LET head == <<W("class", schema.name, <<Superclass(schema)>>)>>
        req == <<W("requiredFields", RequiredFieldNames(schema), <<>>)>>
        vl == getValueListName(schema)
        emb == writeEmbeddedTypesClassMethods(schema)
    IN  IF schema.kind = "record"
        THEN IF isSearchResponse(schema) /\ vl.err # "none"
             THEN [out |-> head \o req, err |-> vl.err]
             ELSE LET mid == IF isSearchResponse(schema)
                             THEN head \o req \o <<W("_valueListName", vl.val, <<>>)>>
                             ELSE head \o req
                  IN  IF emb.err # "none"
                      THEN [out |-> mid \o emb.out, err |-> emb.err]
                      ELSE [out |-> mid \o emb.out \o writeConstructor(schema),
                            err |-> "none"]
        ELSE [out |-> head \o [i \in 1..Len(schema.symbols) |->
                                  W("symbol", <<schema.symbols[i]>>, <<>>)],
              err |-> "none"]

(***************************************************************************)
(* SchemaGenerator                                                         *)
(***************************************************************************)
\* [x.name for x in classes if pred(x)], in the order of classes.
RECURSIVE requestClassNames(_)
requestClassNames(classes) ==
    IF classes = <<>> THEN <<>>
    ELSE IF isSearchRequest(Head(classes))
         THEN <<Head(classes).name>> \o requestClassNames(Tail(classes))
         ELSE requestClassNames(Tail(classes))

RECURSIVE responseClassNames(_)
responseClassNames(classes) ==
    IF classes = <<>> THEN <<>>
    ELSE IF isSearchResponse(Head(classes))
         THEN <<Head(classes).name>> \o responseClassNames(Tail(classes))
         ELSE responseClassNames(Tail(classes))

Url(request) == <<"/">> \o lower(ObjectName(request)) \o <<"/search">>

Min(a, b) == IF a < b THEN a ELSE b

\* zip(requestClassNames, responseClassNames) turned into (url, request, response).
Signatures(classes) ==
    LET reqs == requestClassNames(classes)
        resps == responseClassNames(classes)
    IN  [i \in 1..Min(Len(reqs), Len(resps)) |->
            [url |-> Url(reqs[i]), request |-> reqs[i], response |-> resps[i]]]

\* Tuple order: by url, then request, then response.
SigLess(x, y) ==
    IF x.url # y.url THEN StrLess(x.url, y.url)
    ELSE IF x.request # y.request THEN StrLess(x.request, y.request)
    ELSE StrLess(x.response, y.response)

InsertSig(t, x) ==
    LET p == Cardinality({i \in 1..Len(t) : ~SigLess(x, t[i])})
    IN  SubSeq(t, 1, p) \o <<x>> \o SubSeq(t, p + 1, Len(t))

RECURSIVE SortSigs(_)
SortSigs(s) ==
    IF s = <<>> THEN <<>>
    ELSE InsertSig(SortSigs(SubSeq(s, 1, Len(s) - 1)), s[Len(s)])

PostSignatures(classes) == SortSigs(Signatures(classes))

\* writeHeader stripping every leading 'v', dotted or not.
VersionStrAnyPrefix(version) ==
    IF LowerChar(version[1]) = "v" THEN Tail(version) ELSE version

\* The version string of writeHeader, for a non-empty version.
VersionStr(version) ==
    IF LowerChar(version[1]) = "v" /\ (\E i \in 1..Len(version) : version[i] = ".")
    THEN Tail(version)
    ELSE version

\* What the loop over postSignatures writes after the opening "[('".
RECURSIVE PostMethodsFrom(_, _)
PostMethodsFrom(sigs, i) ==
    IF i > Len(sigs) THEN <<>>
    ELSE (IF i # 1 THEN <<W("(", <<>>, <<>>)>> ELSE <<>>)
         \o << W("url", sigs[i].url, <<>>),
               W("request", sigs[i].request, <<>>),
               W("response", sigs[i].response, <<>>),
               W(")", <<>>, <<>>) >>
         \o (IF i = Len(sigs) THEN <<W("]", <<>>, <<>>)>> ELSE <<W(",", <<>>, <<>>)>>)
         \o PostMethodsFrom(sigs, i + 1)

PostMethods(sigs) ==
    <<W("postMethods = [", <<>>, <<>>), W("(", <<>>, <<>>)>> \o PostMethodsFrom(sigs, 1)

(***************************************************************************)
(* Inputs.                                                                 *)
(***************************************************************************)
String == PrimitiveSchema("string")
Null == PrimitiveSchema("null")
Call == RecordRef(<<"Call">>)

\* The type definitions a schema directory is drawn from; every file of a
\* directory defines a type of its own name.
Catalogue ==
    { RecordSchema(<<"Search", "Foo", "Request">>,
          << Field("variants", String, FALSE), Field("page_token", String, TRUE) >>),
      RecordSchema(<<"Search", "Foo", "Response">>,
          << Field("variants", ArraySchema(Call), TRUE),
             Field("next_page_token", UnionSchema(<<Null, String>>), TRUE) >>),
      RecordSchema(<<"Search", "Bar", "Request">>,
          << Field("page_token", String, TRUE), Field("calls", String, FALSE) >>),
      RecordSchema(<<"Search", "Bar", "Response">>,
          << Field("next_page_token", UnionSchema(<<Null, String>>), TRUE),
             Field("calls", ArraySchema(Call), TRUE) >>),
      RecordSchema(<<"Search", "Foo", "Request", "Response">>,
          << Field("next_page_token", String, TRUE),
             Field("calls", UnionSchema(<<Null, Call>>), TRUE) >>),
      EnumSchema(<<"Search", "Mode", "Request">>, <<"EXACT", "FUZZY">>),
      RecordSchema(<<"Call">>,
          << Field("variants", UnionSchema(<<String, Null>>), TRUE) >>),
      RecordSchema(<<"Search", "Call", "Response">>,
          << Field("next_page_token", String, TRUE) >>) }

InputSets == {S \in SUBSET Catalogue : Cardinality(S) <= MaxTypes}

\* The orders glob.glob may list the files of a directory in.
GlobOrders(S) ==
    {order \in [1..Cardinality(S) -> S] :
        \A i, j \in 1..Cardinality(S) : i # j => order[i] # order[j]}

VersionChars == {"v", "V", ".", "0"}

Versions == UNION {[1..n -> VersionChars] : n \in 0..MaxVersionLen}

FieldNames == {"calls", "next_page_token", "variants"}

TypeDescriptors ==
    { String, Call, ArraySchema(Call), ArraySchema(String),
      UnionSchema(<<Null, Call>>), UnionSchema(<<Null, ArraySchema(Call)>>),
      UnionSchema(<<Call, Null>>), UnionSchema(<<Null, Call, String>>),
      UnionSchema(<<Null>>) }

ClassNames ==
    { <<"Search", "Foo", "Response">>, <<"Search", "Foo", "Request", "Response">>,
      <<"Search", "Response">>, <<"Call">> }

\* The orders n fields of distinct names may be declared in.
DeclaredNames(n) ==
    {f \in [1..n -> FieldNames] : \A i, j \in 1..n : i # j => f[i] # f[j]}

(***************************************************************************)
(* State.                                                                  *)
(***************************************************************************)
VARIABLES
    pc,              \* where the program is
    cwd,             \* the working directory of the process
    savedCwd,        \* run's local cwd
    avdlLeft,        \* avdl files still to convert
    schemas,         \* the type definitions of the schema directory
    version,         \* SchemaGenerator.version
    classes,         \* SchemaGenerator.classes
    postSignatures,  \* SchemaGenerator.postSignatures
    todo,            \* names the loop of SchemaGenerator.write has not reached
    outputFile,      \* what the destination file holds
    error,           \* the exception that ended the run, or "none"
    run,             \* "first" or "second" invocation over the same input
    prev,            \* the destination file and the outcome of the first one
    schema,          \* the SchemaClass under analysis
    called,          \* the SchemaClass method applied to it
    ret              \* what that method returned or raised

vars == << pc, cwd, savedCwd, avdlLeft, schemas, version, classes,
           postSignatures, todo, outputFile, error, run, prev,
           schema, called, ret >>

classVars == << schema, called, ret >>
runVars == << run, prev >>
generatorVars == << classes, postSignatures, todo >>
processVars == << cwd, savedCwd, avdlLeft >>

NoSchema == RecordSchema(<<>>, <<>>)

Idle ==
    /\ cwd = "orig"
    /\ savedCwd = "orig"
    /\ avdlLeft = 0
    /\ classes = <<>>
    /\ postSignatures = <<>>
    /\ todo = <<>>
    /\ outputFile = <<>>
    /\ error = "none"
    /\ run = "first"
    /\ prev = [output |-> <<>>, error |-> "none"]
    /\ called = "none"
    /\ ret = Ok(<<>>)

\* main: a SchemaProcessor about to run on some set of definitions.
Init ==
    /\ Idle
    /\ pc = "run"
    /\ schemas \in InputSets
    /\ version = <<"v", "0", ".", "0">>
    /\ schema = NoSchema

\* A SchemaGenerator about to write the header of an opened file.
InitHeader ==
    /\ Idle
    /\ pc = "header"
    /\ schemas = {}
    /\ version \in Versions
    /\ schema = NoSchema

\* A SchemaClass just parsed.
InitClass ==
    /\ Idle
    /\ pc = "class"
    /\ schemas = {}
    /\ version = <<>>
    /\ \E name \in ClassNames :
          \/ schema = EnumSchema(name, <<"EXACT">>)
          \/ \E n \in 0..MaxFields :
                \E ns \in DeclaredNames(n), ts \in [1..n -> TypeDescriptors],
                   ds \in [1..n -> BOOLEAN] :
                    schema = RecordSchema(name,
                                 [i \in 1..n |-> Field(ns[i], ts[i], ds[i])])

(***************************************************************************)
(* SchemaProcessor.run and main.                                           *)
(***************************************************************************)
Raised(e) ==
    /\ pc' = "raised"
    /\ error' = e

\* getSchemaFromGitHub / getSchemaFromLocal.
GetSchema ==
    /\ pc = "run"
    /\ pc' = "setupAvroJar"
    /\ UNCHANGED << processVars, schemas, version, generatorVars, outputFile,
                    error, runVars, classVars >>

GetSchemaRaises ==
    /\ pc = "run"
    /\ Raised("IOError")
    /\ UNCHANGED << processVars, schemas, version, generatorVars, outputFile,
                    runVars, classVars >>

\* setupAvroJar; cwd = os.getcwd(); os.chdir(directory); glob("*.avdl").
SetupAvroJarAndChdir ==
    /\ pc = "setupAvroJar"
    /\ savedCwd' = cwd
    /\ cwd' = "directory"
    /\ \E n \in 0..MaxAvdl : avdlLeft' = n
    /\ pc' = "convert"
    /\ UNCHANGED << schemas, version, generatorVars, outputFile, error,
                    runVars, classVars >>

SetupAvroJarRaises ==
    /\ pc = "setupAvroJar"
    /\ Raised("IOError")
    /\ UNCHANGED << processVars, schemas, version, generatorVars, outputFile,
                    runVars, classVars >>

\* One turn of the loop: convertAvro returns.
ConvertAvro ==
    /\ pc = "convert"
    /\ avdlLeft > 0
    /\ avdlLeft' = avdlLeft - 1
    /\ UNCHANGED << pc, cwd, savedCwd, schemas, version, generatorVars,
                    outputFile, error, runVars, classVars >>

\* One turn of the loop: utils.runCommandSplits raises.
ConvertAvroRaises ==
    /\ pc = "convert"
    /\ avdlLeft > 0
    /\ Raised("CalledProcessError")
    /\ UNCHANGED << processVars, schemas, version, generatorVars, outputFile,
                    runVars, classVars >>

\* After the loop: os.chdir(cwd).
ChdirBack ==
    /\ pc = "convert"
    /\ avdlLeft = 0
    /\ cwd' = savedCwd
    /\ pc' = "construct"
    /\ UNCHANGED << savedCwd, avdlLeft, schemas, version, generatorVars,
                    outputFile, error, runVars, classVars >>

\* SchemaGenerator.__init__, on the files in the order glob lists them.
Construct ==
    /\ pc = "construct"
    /\ \E order \in GlobOrders(schemas) :
          /\ classes' = order
          /\ postSignatures' = PostSignatures(order)
    /\ pc' = "open"
    /\ UNCHANGED << processVars, schemas, version, todo, outputFile, error,
                    runVars, classVars >>

\* SchemaGenerator.write: open(self.outputFile, "w") truncates the file.
Open ==
    /\ pc = "open"
    /\ outputFile' = <<>>
    /\ pc' = "header"
    /\ UNCHANGED << processVars, schemas, version, generatorVars, error,
                    runVars, classVars >>

ClassNamesOf(cs) == [i \in 1..Len(cs) |-> cs[i].name]

\* write going through the names in the order of self.classes.
UnsortedNames(names) == names

\* sorted(names) in write.
SortedNames(names) == sorted(names)

\* writeHeader, and the names the loop of write will go through.
WriteHeader ==
    /\ pc = "header"
    /\ IF version = <<>>
       THEN /\ outputFile' = outputFile \o <<W("header", <<>>, <<>>)>>
            /\ Raised("IndexError")
            /\ todo' = todo
       ELSE /\ outputFile' = outputFile \o << W("header", <<>>, <<>>),
                                              W("version", VersionStr(version), <<>>) >>
            /\ pc' = "classes"
            /\ error' = error
            /\ todo' = SortedNames(ClassNamesOf(classes))
    /\ UNCHANGED << processVars, schemas, version, classes, postSignatures,
                    runVars, classVars >>

\* classes[name] of the dict built from self.classes.
ClassOf(name) == CHOOSE c \in {classes[i] : i \in 1..Len(classes)} : c.name = name

\* One turn of the loop of write: cls.write(outputFile).
WriteClass ==
    /\ pc = "classes"
    /\ todo # <<>>
    /\ LET r == SchemaClassWrite(ClassOf(Head(todo))) IN
          /\ outputFile' = outputFile \o r.out
          /\ IF r.err # "none"
             THEN Raised(r.err) /\ todo' = todo
             ELSE pc' = pc /\ error' = error /\ todo' = Tail(todo)
    /\ UNCHANGED << processVars, schemas, version, classes, postSignatures,
                    runVars, classVars >>

\* After the loop: the postMethods table; the file is closed; run returns.
WritePostMethods ==
    /\ pc = "classes"
    /\ todo = <<>>
    /\ outputFile' = outputFile \o PostMethods(postSignatures)
    /\ pc' = "returned"
    /\ UNCHANGED << processVars, schemas, version, generatorVars, error,
                    runVars, classVars >>

\* main's finally: sp.cleanup().
Cleanup ==
    /\ pc \in {"returned", "raised"}
    /\ pc' = "exit"
    /\ UNCHANGED << processVars, schemas, version, generatorVars, outputFile,
                    error, runVars, classVars >>

\* The program is started again on the same definitions; the destination
\* file of the first invocation is still there.
SecondRun ==
    /\ pc = "exit"
    /\ run = "first"
    /\ run' = "second"
    /\ prev' = [output |-> outputFile, error |-> error]
    /\ pc' = "run"
    /\ cwd' = "orig"
    /\ savedCwd' = "orig"
    /\ avdlLeft' = 0
    /\ classes' = <<>>
    /\ postSignatures' = <<>>
    /\ todo' = <<>>
    /\ error' = "none"
    /\ UNCHANGED << schemas, version, outputFile, classVars >>

Next ==
    \/ GetSchema
    \/ GetSchemaRaises
    \/ SetupAvroJarAndChdir
    \/ SetupAvroJarRaises
    \/ ConvertAvro
    \/ ConvertAvroRaises
    \/ ChdirBack
    \/ Construct
    \/ Open
    \/ WriteHeader
    \/ WriteClass
    \/ WritePostMethods
    \/ Cleanup
    \/ SecondRun

Spec == Init /\ [][Next]_vars

NextHeader == WriteHeader

SpecHeader == InitHeader /\ [][NextHeader]_vars

(***************************************************************************)
(* The methods of one SchemaClass, applied to a parsed schema.             *)
(***************************************************************************)
CallGetValueListName ==
    /\ pc = "class"
    /\ called = "none"
    /\ called' = "getValueListName"
    /\ ret' = getValueListName(schema)
    /\ UNCHANGED << pc, processVars, schemas, version, generatorVars, outputFile,
                    error, runVars, schema >>

CallGetEmbeddedTypes ==
    /\ pc = "class"
    /\ called = "none"
    /\ called' = "getEmbeddedTypes"
    /\ ret' = getEmbeddedTypes(schema)
    /\ UNCHANGED << pc, processVars, schemas, version, generatorVars, outputFile,
                    error, runVars, schema >>

CallWriteRequiredFields ==
    /\ pc = "class"
    /\ called = "none"
    /\ schema.kind = "record"
    /\ called' = "writeRequiredFields"
    /\ outputFile' = outputFile \o <<W("requiredFields", RequiredFieldNames(schema), <<>>)>>
    /\ UNCHANGED << pc, processVars, schemas, version, generatorVars, error,
                    runVars, schema, ret >>

NextClass ==
    \/ CallGetValueListName
    \/ CallGetEmbeddedTypes
    \/ CallWriteRequiredFields

SpecClass == InitClass /\ [][NextClass]_vars

(***************************************************************************)
(* Properties.                                                             *)
(***************************************************************************)
Elements(seq) == {seq[i] : i \in 1..Len(seq)}

LastWritten == outputFile[Len(outputFile)]

\* A union of exactly two branches, the null primitive then a Record.
NullableRecord(t) ==
    /\ Len(t.sub) = 2
    /\ t.sub[1] = Null
    /\ t.sub[2].tag = "record"

UnionFields(s) == {f \in Elements(s.fields) : f.type.tag = "union"}

\* C4: getEmbeddedTypes of a Record yields an edge for a Union field only
\* when the union is exactly <<null, Record>>, and fails when some Union
\* field has any other shape, instead of accepting or skipping it.
UnionRejection ==
    (called = "getEmbeddedTypes" /\ schema.kind = "record") =>
        IF \E f \in UnionFields(schema) : ~NullableRecord(f.type)
        THEN ret.err # "none"
        ELSE /\ ret.err = "none"
             /\ \A f \in UnionFields(schema) :
                    <<f.name>> \o f.type.sub[2].name \in Elements(ret.val)

\* The failures getValueListName can end in.
ResponseShapeErrors == {"AssertionError", "ValueError", "AttributeError"}

RequiredFieldsExact ==
    called = "writeRequiredFields" =>
        /\ LastWritten.kind = "requiredFields"
        /\ Elements(LastWritten.a) =
               {f.name : f \in {g \in Elements(schema.fields) : ~g.has_default}}

RequiredFieldsWitness ==
    /\ called = "writeRequiredFields"
    /\ Len(schema.fields) = 3
    /\ schema.fields[1].name = "variants" /\ ~schema.fields[1].has_default
    /\ schema.fields[2].name = "calls" /\ ~schema.fields[2].has_default
    /\ schema.fields[3].name = "next_page_token" /\ schema.fields[3].has_default
    /\ LastWritten.a = <<"calls", "variants">>

HeaderWritten == pc \in {"classes", "raised"} /\ Len(outputFile) >= 1

\* C8: the version written is the identifier without its leading 'v' or 'V'
\* when it has one, the identifier itself otherwise, and writeHeader never
\* fails.
VersionPrefixStripped ==
    HeaderWritten =>
        /\ error = "none"
        /\ LastWritten.kind = "version"
        /\ LastWritten.a = IF version # <<>> /\ version[1] \in {"v", "V"}
                           THEN Tail(version)
                           ELSE version

\* C8 as amended: writeHeader fails exactly for the empty identifier; the
\* leading 'v' or 'V' is removed only from an identifier that holds a '.'.
VersionStrippedWhenDotted ==
    HeaderWritten =>
        IF version = <<>>
        THEN error = "IndexError" /\ LastWritten.kind = "header"
        ELSE /\ error = "none"
             /\ LastWritten.kind = "version"
             /\ LastWritten.a = IF /\ version[1] \in {"v", "V"}
                                   /\ "." \in Elements(version)
                                THEN Tail(version)
                                ELSE version

VersionWitness ==
    /\ HeaderWritten
    /\ version = <<"V", "0", ".">>
    /\ LastWritten = W("version", <<"0", ".">>, <<>>)

\* A SchemaGenerator has been constructed in this run.
Constructed == pc \in {"open", "header", "classes", "returned"}

ResponseFor(request) == <<"Search">> \o ObjectName(request) \o <<"Response">>

RequestFor(object) == <<"Search">> \o object \o <<"Request">>

\* Every Search<X>Request has its Search<X>Response and conversely, and no
\* name is both.
WellPaired(S) ==
    LET names == {s.name : s \in S} IN
    /\ \A s \in S : isSearchRequest(s) =>
          /\ ~isSearchResponse(s)
          /\ s.name = RequestFor(ObjectName(s.name))
          /\ ResponseFor(s.name) \in names
    /\ \A s \in S : isSearchResponse(s) =>
          /\ ~isSearchRequest(s)
          /\ \E r \in S : isSearchRequest(r) /\ ResponseFor(r.name) = s.name

\* C1: when every request type has its response type, the endpoint triples
\* are ('/<x>/search', Search<X>Request, Search<X>Response), one for every
\* request type, whatever order the files are listed in.
EndpointPairing ==
    (Constructed /\ WellPaired(schemas)) =>
        /\ Len(postSignatures) = Cardinality({s \in schemas : isSearchRequest(s)})
        /\ \A i \in 1..Len(postSignatures) :
              /\ postSignatures[i].url =
                     <<"/">> \o lower(ObjectName(postSignatures[i].request))
                             \o <<"/search">>
              /\ postSignatures[i].response = ResponseFor(postSignatures[i].request)

\* C2: a second run over the same definitions that completes leaves the
\* output the first completed run left.
Determinism ==
    (run = "second" /\ pc = "returned" /\ prev.error = "none") =>
        outputFile = prev.output

\* C3: after a run that failed, the destination file holds what it held
\* before the run.
AtomicPublication ==
    error # "none" => outputFile = prev.output

IsClass(item) == item.kind = "class"

\* The type names written so far, in the order they were written.
Emitted ==
    LET cs == SelectSeq(outputFile, IsClass) IN [i \in 1..Len(cs) |-> cs[i].a]

\* C6: the type names are written in strictly ascending order, and a run
\* that completes has written every type of the input once.
TypeEmissionOrder ==
    /\ \A i \in 1..(Len(Emitted) - 1) : StrLess(Emitted[i], Emitted[i + 1])
    /\ pc = "returned" =>
          /\ Elements(Emitted) = {s.name : s \in schemas}
          /\ Len(Emitted) = Cardinality(schemas)

TypeEmissionWitness ==
    /\ pc = "returned"
    /\ Len(classes) = 3
    /\ StrLess(classes[3].name, classes[2].name)
    /\ StrLess(classes[2].name, classes[1].name)
    /\ Len(Emitted) = 3

\* The index of the "class" item that opens the block item k belongs to.
ClassItemOf(k) ==
    CHOOSE i \in 1..k :
        /\ outputFile[i].kind = "class"
        /\ \A j \in (i + 1)..k : outputFile[j].kind # "class"

\* C9: a type has one tag: _valueListName is written for exactly the types
\* whose superclass is SearchResponse, and only types tagged SearchRequest
\* (SearchResponse) are in the request (response) list of the endpoints.
SingleClassification ==
    /\ pc = "returned" =>
          \A i \in 1..Len(outputFile) :
              outputFile[i].kind = "class" =>
                  (outputFile[i].b = <<"SearchResponse">>
                      <=> \E k \in i..Len(outputFile) :
                              /\ outputFile[k].kind = "_valueListName"
                              /\ ClassItemOf(k) = i)
    /\ Constructed =>
          \A c \in Elements(classes) :
              /\ c.name \in Elements(requestClassNames(classes))
                    => Superclass(c) = "SearchRequest"
              /\ c.name \in Elements(responseClassNames(classes))
                    => Superclass(c) = "SearchResponse"

\* C10: at every exit of run, by return or by exception, the working
\* directory is the one run was entered with.
WorkingDirectoryRestored ==
    pc \in {"returned", "raised"} => cwd = "orig"

\* What the output file holds from the opening of the postMethods list on.
EndpointTable ==
    LET start == CHOOSE i \in 1..Len(outputFile) :
                     outputFile[i].kind = "postMethods = ["
    IN  SubSeq(outputFile, start + 1, Len(outputFile))

CountOf(seq, kind) == Cardinality({i \in 1..Len(seq) : seq[i].kind = kind})

\* C11: the endpoint table of a completed run is a complete list literal:
\* every triple is opened and closed once, the closing bracket is written
\* once and last, and there is one triple for every SearchRequest type of
\* the input, also when there is none.
EndpointTableWellFormed ==
    pc = "returned" =>
        /\ CountOf(EndpointTable, "]") = 1
        /\ outputFile[Len(outputFile)].kind = "]"
        /\ CountOf(EndpointTable, "(") = CountOf(EndpointTable, "url")
        /\ CountOf(EndpointTable, ")") = CountOf(EndpointTable, "url")
        /\ CountOf(EndpointTable, "url") =
               Cardinality({s \in schemas : isSearchRequest(s)})

====
